---------------------------- MODULE Spec2Model ----------------------------
(***************************************************************************)
(* Model of the oracle pallet (pallets/oracle/src/lib.rs): the storage map *)
(* MessageState, the dispatchable verify_message, the unsigned-transaction *)
(* validator validate_unsigned, and the Ethereum personal_sign recovery    *)
(* they share.                                                             *)
(*                                                                         *)
(* Bytes are naturals, byte strings are sequences.  Option<T> is a         *)
(* sequence of length 0 (None) or 1 (Some).  Accounts, messages and keys   *)
(* are small identifiers; a message identifier stands for one 256-byte     *)
(* array, an account identifier for one AccountId.                         *)
(***************************************************************************)
EXTENDS Integers, Sequences, FiniteSets, TLC

(* ------------------------------ bounds --------------------------------- *)
NumAccounts == 2
NumMessages == 2
NumKeys == 1
MaxCalls == 2
\* length of an encoded AccountId and of a Message, scaled down
AccountIdLen == 1
MessageLen == 2
\* most calls waiting in the pool at once
MaxPool == 2
\* longest body and suffix tried on ethereum_signable_message
MaxPartLen == 5
\* length of an EthereumAddress in bytes, scaled down from 20
AddressLen == 2

Accounts == 1..NumAccounts
Messages == 1..NumMessages
Keys == 1..NumKeys

(* ------------------------------ values --------------------------------- *)
None == <<>>
Some(x) == <<x>>
is_some(o) == Len(o) = 1
unwrap(o) == o[1]

\* frame_system origins that ensure_none / ensure_signed / ensure_root classify
Origins == {"None", "Signed", "Root"}

\* Message([u8; 256]): the byte array of a message
MessageBytes(message) == [i \in 1..MessageLen |-> message]

\* Encode::encode(&account): the SCALE encoding of an AccountId
Encode(account) == [i \in 1..AccountIdLen |-> 100 + account]

(* --------------------------- address codec ----------------------------- *)
\* Result<T, E>
Ok(x) == [ok |-> TRUE, val |-> x, err |-> ""]
Err(e) == [ok |-> FALSE, val |-> <<>>, err |-> e]

\* characters are ASCII codes: "0" is 48, "A" 65, "a" 97, "x" 120
ToHexChar(n) == IF n < 10 THEN 48 + n ELSE 97 + (n - 10)

\* rustc_hex::ToHex::to_hex: two lowercase digits per byte, high nibble first
to_hex(bytes) ==
    [i \in 1..(2 * Len(bytes)) |->
        IF i % 2 = 1 THEN ToHexChar(bytes[(i + 1) \div 2] \div 16)
                     ELSE ToHexChar(bytes[i \div 2] % 16)]

\* value of a hex digit of either case, -1 for any other character
FromHexChar(c) ==
    IF c >= 48 /\ c <= 57 THEN c - 48
    ELSE IF c >= 97 /\ c <= 102 THEN c - 97 + 10
    ELSE IF c >= 65 /\ c <= 70 THEN c - 65 + 10
    ELSE -1

\* rustc_hex::FromHex::from_hex on a string of hex digits
from_hex(str) ==
    IF \E i \in 1..Len(str) : FromHexChar(str[i]) = -1 THEN Err("InvalidHexCharacter")
    ELSE IF Len(str) % 2 # 0 THEN Err("InvalidHexLength")
    ELSE Ok([i \in 1..(Len(str) \div 2) |->
                16 * FromHexChar(str[2 * i - 1]) + FromHexChar(str[2 * i])])

\* impl Serialize for EthereumAddress: format!("0x{}", hex)
serialize(addr) == <<48, 120>> \o to_hex(addr)

starts_with_0x(str) == Len(str) >= 2 /\ str[1] = 48 /\ str[2] = 120

\* seeded fault: the length test counts the "0x" prefix, as its message does
deserialize_Len42(base_string) ==
    LET offset == IF starts_with_0x(base_string) THEN 2 ELSE 0
        str == SubSeq(base_string, offset + 1, Len(base_string))
    IN  IF Len(str) # 2 * AddressLen + 2
        THEN Err("Bad length of Ethereum address (should be 42 including '0x')")
        ELSE from_hex(str)

\* impl Deserialize for EthereumAddress (2 * AddressLen stands for 40)
deserialize(base_string) ==
    LET offset == IF starts_with_0x(base_string) THEN 2 ELSE 0
        str == SubSeq(base_string, offset + 1, Len(base_string))
    IN  IF Len(str) # 2 * AddressLen
        THEN Err("Bad length of Ethereum address (should be 42 including '0x')")
        ELSE from_hex(str)

(* ------------------------ signature recovery --------------------------- *)
RECURSIVE RevDigits(_)
\* the while loop of ethereum_signable_message: least significant digit first
RevDigits(l) == IF l > 0 THEN <<48 + (l % 10)>> \o RevDigits(l \div 10) ELSE <<>>

Reverse(s) == [i \in 1..Len(s) |-> s[Len(s) + 1 - i]]

\* b"\x19Ethereum Signed Message:\n"
SignedMessagePrefix ==
    <<25, 69, 116, 104, 101, 114, 101, 117, 109, 32, 83, 105, 103, 110, 101,
      100, 32, 77, 101, 115, 115, 97, 103, 101, 58, 10>>

\* seeded fault: the encoded account is left out of the preimage
ethereum_signable_message_NoAccount(what, extra) ==
    LET l == Len(what) + Len(extra)
        rev == RevDigits(l)
    IN  SignedMessagePrefix \o Reverse(rev) \o extra

ethereum_signable_message(what, extra) ==
    LET l == Len(what) + Len(extra)
        rev == RevDigits(l)
    IN  SignedMessagePrefix \o Reverse(rev) \o what \o extra

\* sp_io::hashing::keccak_256, an ideal hash: distinct inputs, distinct digests
keccak_256(data) == <<"keccak_256", data>>

\* A 65-byte signature is well formed or not; a well-formed one was made by
\* key `key` over digest `hash`.
Sign(key, account, message) ==
    [valid |-> TRUE, key |-> key,
     hash |-> keccak_256(ethereum_signable_message(Encode(account), MessageBytes(message)))]

MalformedSignature == [valid |-> FALSE, key |-> 0, hash |-> keccak_256(<<>>)]

\* The signatures submitted with a message: the malformed one, and those made by
\* any key for any account over that message (for the claimed account or not).
\* A signature made over another message recovers, like one made for another
\* account, to an unrelated address; it is left out of the submitted set.
SignaturesFor(message) ==
    {Sign(k, a, message) : k \in Keys, a \in Accounts} \cup {MalformedSignature}

\* sp_io::crypto::secp256k1_ecdsa_recover(sig, msg).ok(): None for a malformed
\* signature; the signer's public key when msg is the digest that was signed;
\* for any other digest some other public key, fixed by the signature and msg.
secp256k1_ecdsa_recover(sig, msg) ==
    IF ~sig.valid THEN None
    ELSE IF msg = sig.hash THEN Some(<<sig.key, <<>>>>)
    ELSE Some(<<sig.key, <<sig.hash, msg>>>>)

\* the last 20 bytes of the Keccak digest of a public key
EthereumAddress(pubkey) == <<"0x", pubkey>>

eth_recover(s, what, extra) ==
    LET msg == keccak_256(ethereum_signable_message(what, extra))
        pk == secp256k1_ecdsa_recover(s, msg)
    IN  IF is_some(pk) THEN Some(EthereumAddress(unwrap(pk))) ELSE None

(* ------------------------------- state --------------------------------- *)
VARIABLES
    MessageState,   \* StorageMap Message -> Option<bool>
    events,         \* the events deposited so far, in order
    last,           \* the last call made: its arguments, the storage map and event
                    \* log it found, what it returned and deposited
    okCount,        \* per message, how many verify_message calls returned Ok
    invalidSeen,    \* the messages a verify_message call failed on with InvalidSignature
    ncalls,         \* number of calls made
    pool,           \* the calls validate_unsigned accepted that wait to be dispatched
    calc            \* the last application of a pure function: arguments and value

vars == <<MessageState, events, last, okCount, invalidSeen, ncalls, pool, calc>>

(* ----------------------------- the pallet ------------------------------ *)
\* seeded fault: the root origin passes as well
ensure_none_AcceptsRoot(origin) == origin \in {"None", "Root"}

\* frame_system::ensure_none: Ok only for the none (unsigned) origin
ensure_none(origin) == origin = "None"

\* Event::MessageVerified(T::AccountId, Message, bool)
MessageVerified(account, message, flag) ==
    [who |-> account, message |-> message, verified |-> flag]

\* seeded fault: the event is deposited before the signature is recovered
verify_message_EventFirst(storage, origin, account, message, signature) ==
    IF origin # "None"
    THEN [result |-> "BadOrigin", storage |-> storage, deposited |-> <<>>]
    ELSE IF ~is_some(storage[message])
    THEN [result |-> "MessageAlreadyVerified", storage |-> storage, deposited |-> <<>>]
    ELSE LET signer == eth_recover(signature, Encode(account), MessageBytes(message))
         IN  [result |-> IF is_some(signer) THEN "Ok" ELSE "InvalidSignature",
              storage |-> storage,
              deposited |-> <<MessageVerified(account, message, TRUE)>>]

\* seeded fault: the entry is read with take() instead of get(), which removes it
verify_message_TakesEntry(storage, origin, account, message, signature) ==
    IF origin # "None"
    THEN [result |-> "BadOrigin", storage |-> storage, deposited |-> <<>>]
    ELSE IF ~is_some(storage[message])
    THEN [result |-> "MessageAlreadyVerified", storage |-> storage, deposited |-> <<>>]
    ELSE LET signer == eth_recover(signature, Encode(account), MessageBytes(message))
             taken == [storage EXCEPT ![message] = None]
         IN  IF ~is_some(signer)
             THEN [result |-> "InvalidSignature", storage |-> taken, deposited |-> <<>>]
             ELSE [result |-> "Ok", storage |-> taken,
                   deposited |-> <<MessageVerified(account, message, TRUE)>>]

\* seeded fault: the commented-out signer check is in force, against the
\* address of the key that made the signature
verify_message_ChecksSigner(storage, origin, account, message, signature) ==
    IF origin # "None"
    THEN [result |-> "BadOrigin", storage |-> storage, deposited |-> <<>>]
    ELSE IF ~is_some(storage[message])
    THEN [result |-> "MessageAlreadyVerified", storage |-> storage, deposited |-> <<>>]
    ELSE LET signer == eth_recover(signature, Encode(account), MessageBytes(message))
         IN  IF ~is_some(signer)
             THEN [result |-> "InvalidSignature", storage |-> storage, deposited |-> <<>>]
             ELSE IF signer # Some(EthereumAddress(<<signature.key, <<>>>>))
             THEN [result |-> "InvalidSigner", storage |-> storage, deposited |-> <<>>]
             ELSE [result |-> "Ok", storage |-> storage,
                   deposited |-> <<MessageVerified(account, message, TRUE)>>]

\* Pallet::verify_message.  Returns the dispatch result, the storage map after
\* the call and the events the call deposited.
verify_message(storage, origin, account, message, signature) ==
    IF ~ensure_none(origin)
    THEN [result |-> "BadOrigin", storage |-> storage, deposited |-> <<>>]
    ELSE IF ~is_some(storage[message])
    THEN [result |-> "MessageAlreadyVerified", storage |-> storage, deposited |-> <<>>]
    ELSE LET address == Encode(account)
             signer == eth_recover(signature, address, MessageBytes(message))
         IN  IF ~is_some(signer)
             THEN [result |-> "InvalidSignature", storage |-> storage, deposited |-> <<>>]
             ELSE [result |-> "Ok", storage |-> storage,
                   deposited |-> <<MessageVerified(account, message, TRUE)>>]

PRIORITY == 100

\* TransactionLongevity::max_value(): u64::MAX as four 16-bit limbs
TransactionLongevity_max == [i \in 1..4 |-> 65535]

\* ("claims", signer).encode()
EncodeClaims(signer) == <<"claims">> \o signer

\* Call<T>: verify_message(account, message, signature), or any other variant
VerifyMessageCall(account, message, signature) ==
    [kind |-> "verify_message", account |-> account, message |-> message,
     signature |-> signature]

OtherCall ==
    [kind |-> "other", account |-> 1, message |-> 1, signature |-> MalformedSignature]

Calls ==
    UNION {{VerifyMessageCall(a, m, s) : a \in Accounts, s \in SignaturesFor(m)} :
               m \in Messages}
        \cup {OtherCall}

\* seeded fault: an accepted message is recorded in the storage map
validate_unsigned_MarksMessage(storage, call) ==
    IF call.kind # "verify_message"
    THEN [validity |-> "Call", ticket |-> None, storage |-> storage, deposited |-> <<>>]
    ELSE LET maybe_signer == eth_recover(call.signature, Encode(call.account),
                                         MessageBytes(call.message))
         IN  IF ~is_some(maybe_signer)
             THEN [validity |-> "BadProof", ticket |-> None, storage |-> storage,
                   deposited |-> <<>>]
             ELSE [validity |-> "Ok",
                   ticket |-> Some([priority |-> PRIORITY,
                                    requires |-> <<>>,
                                    provides |-> <<EncodeClaims(unwrap(maybe_signer))>>,
                                    longevity |-> TransactionLongevity_max,
                                    propagate |-> TRUE]),
                   storage |-> [storage EXCEPT ![call.message] = Some(TRUE)],
                   deposited |-> <<>>]

\* seeded fault: the provided tag is made from the claimed account, not the signer
validate_unsigned_TagsAccount(storage, call) ==
    IF call.kind # "verify_message"
    THEN [validity |-> "Call", ticket |-> None, storage |-> storage, deposited |-> <<>>]
    ELSE LET maybe_signer == eth_recover(call.signature, Encode(call.account),
                                         MessageBytes(call.message))
         IN  IF ~is_some(maybe_signer)
             THEN [validity |-> "BadProof", ticket |-> None, storage |-> storage,
                   deposited |-> <<>>]
             ELSE [validity |-> "Ok",
                   ticket |-> Some([priority |-> PRIORITY,
                                    requires |-> <<>>,
                                    provides |-> <<EncodeClaims(Encode(call.account))>>,
                                    longevity |-> TransactionLongevity_max,
                                    propagate |-> TRUE]),
                   storage |-> storage, deposited |-> <<>>]

\* seeded fault: the provided tag also carries the message
validate_unsigned_TagsMessage(storage, call) ==
    IF call.kind # "verify_message"
    THEN [validity |-> "Call", ticket |-> None, storage |-> storage, deposited |-> <<>>]
    ELSE LET maybe_signer == eth_recover(call.signature, Encode(call.account),
                                         MessageBytes(call.message))
         IN  IF ~is_some(maybe_signer)
             THEN [validity |-> "BadProof", ticket |-> None, storage |-> storage,
                   deposited |-> <<>>]
             ELSE [validity |-> "Ok",
                   ticket |-> Some([priority |-> PRIORITY,
                                    requires |-> <<>>,
                                    provides |-> <<EncodeClaims(unwrap(maybe_signer))
                                                     \o MessageBytes(call.message)>>,
                                    longevity |-> TransactionLongevity_max,
                                    propagate |-> TRUE]),
                   storage |-> storage, deposited |-> <<>>]

\* seeded fault: the two InvalidTransaction variants are exchanged
validate_unsigned_SwapsErrors(storage, call) ==
    IF call.kind # "verify_message"
    THEN [validity |-> "BadProof", ticket |-> None, storage |-> storage,
          deposited |-> <<>>]
    ELSE LET maybe_signer == eth_recover(call.signature, Encode(call.account),
                                         MessageBytes(call.message))
         IN  IF ~is_some(maybe_signer)
             THEN [validity |-> "Call", ticket |-> None, storage |-> storage,
                   deposited |-> <<>>]
             ELSE [validity |-> "Ok",
                   ticket |-> Some([priority |-> PRIORITY,
                                    requires |-> <<>>,
                                    provides |-> <<EncodeClaims(unwrap(maybe_signer))>>,
                                    longevity |-> TransactionLongevity_max,
                                    propagate |-> TRUE]),
                   storage |-> storage, deposited |-> <<>>]

\* ValidateUnsigned::validate_unsigned (its _source argument is not read).
\* Returns the TransactionValidity (validity "Ok" with the ValidTransaction as
\* ticket, or the InvalidTransaction variant), the storage map after the call
\* and the events it deposited.
validate_unsigned(storage, call) ==
    IF call.kind # "verify_message"
    THEN [validity |-> "Call", ticket |-> None, storage |-> storage, deposited |-> <<>>]
    ELSE LET address == Encode(call.account)
             maybe_signer == eth_recover(call.signature, address, MessageBytes(call.message))
         IN  IF ~is_some(maybe_signer)
             THEN [validity |-> "BadProof", ticket |-> None, storage |-> storage,
                   deposited |-> <<>>]
             ELSE [validity |-> "Ok",
                   ticket |-> Some([priority |-> PRIORITY,
                                    requires |-> <<>>,
                                    provides |-> <<EncodeClaims(unwrap(maybe_signer))>>,
                                    longevity |-> TransactionLongevity_max,
                                    propagate |-> TRUE]),
                   storage |-> storage, deposited |-> <<>>]

(* ---------------------------- state machine ---------------------------- *)
NoCall ==
    [op |-> "none", origin |-> "None", call |-> OtherCall,
     pre |-> [m \in Messages |-> None], preEvents |-> <<>>, result |-> "none",
     ticket |-> None, deposited |-> <<>>, priorOk |-> 0, priorInvalid |-> FALSE,
     repeat |-> None]

NoCalc == [fn |-> "none", arg |-> <<>>, arg2 |-> <<>>, out |-> <<>>]

\* the storage map is empty at genesis: the pallet has no genesis config
Init ==
    /\ MessageState = [m \in Messages |-> None]
    /\ events = <<>>
    /\ last = NoCall
    /\ okCount = [m \in Messages |-> 0]
    /\ invalidSeen = {}
    /\ ncalls = 0
    /\ pool = {}
    /\ calc = NoCalc

\* MessageState is a public map in the chain's persistent storage, which the
\* pallet reads on every call.  Here the first call may find any set of messages
\* recorded as verified (the empty genesis map of Init included).
InitStore ==
    /\ MessageState \in [Messages -> {None, Some(TRUE)}]
    /\ events = <<>>
    /\ last = NoCall
    /\ okCount = [m \in Messages |-> 0]
    /\ invalidSeen = {}
    /\ ncalls = 0
    /\ pool = {}
    /\ calc = NoCalc

\* what one dispatch of verify_message does to the state
Dispatch(origin, account, message, signature) ==
    /\ LET r == verify_message(MessageState, origin, account, message, signature)
       IN  /\ MessageState' = r.storage
           /\ events' = events \o r.deposited
           /\ okCount' = IF r.result = "Ok"
                         THEN [okCount EXCEPT ![message] = @ + 1]
                         ELSE okCount
           /\ last' = [op |-> "verify_message", origin |-> origin,
                       call |-> VerifyMessageCall(account, message, signature),
                       pre |-> MessageState, preEvents |-> events,
                       result |-> r.result, ticket |-> None,
                       deposited |-> r.deposited, priorOk |-> okCount[message],
                       priorInvalid |-> message \in invalidSeen,
                       repeat |-> None]
           /\ invalidSeen' = IF r.result = "InvalidSignature"
                             THEN invalidSeen \cup {message}
                             ELSE invalidSeen
    /\ ncalls' = ncalls + 1
    /\ calc' = calc

\* one dispatch of verify_message
VerifyMessage(origin, account, message, signature) ==
    /\ ncalls < MaxCalls
    /\ Dispatch(origin, account, message, signature)
    /\ pool' = pool

\* what one run of validate_unsigned does to the state
Validate(call) ==
    /\ LET r == validate_unsigned(MessageState, call)
           again == /\ last.op = "validate_unsigned"
                    /\ last.call = call
                    /\ last.pre = MessageState
       IN  /\ MessageState' = r.storage
           /\ events' = events \o r.deposited
           /\ last' = [op |-> "validate_unsigned", origin |-> "None",
                       call |-> call, pre |-> MessageState, preEvents |-> events,
                       result |-> r.validity,
                       ticket |-> r.ticket, deposited |-> r.deposited, priorOk |-> 0,
                       priorInvalid |-> FALSE,
                       repeat |-> IF again
                                  THEN Some([result |-> last.result, ticket |-> last.ticket])
                                  ELSE None]
    /\ okCount' = okCount
    /\ invalidSeen' = invalidSeen
    /\ ncalls' = ncalls + 1
    /\ calc' = calc

\* one run of validate_unsigned
ValidateUnsigned(call) ==
    /\ ncalls < MaxCalls
    /\ Validate(call)
    /\ pool' = pool

VerifyMessageStep ==
    \E origin \in Origins, account \in Accounts, message \in Messages :
        \E signature \in SignaturesFor(message) :
            VerifyMessage(origin, account, message, signature)

ValidateUnsignedStep ==
    \E call \in Calls : ValidateUnsigned(call)

Next == VerifyMessageStep \/ ValidateUnsignedStep

Spec == Init /\ [][Next]_vars

SpecStore == InitStore /\ [][Next]_vars

TypeOK ==
    /\ MessageState \in [Messages -> {None, Some(TRUE), Some(FALSE)}]
    /\ ncalls \in 0..(MaxCalls + 2 * MaxPool)
    /\ invalidSeen \subseteq Messages
    /\ pool \subseteq Calls
    /\ Len(events) <= ncalls
    /\ last.op \in {"none", "verify_message", "validate_unsigned"}
    /\ last.result \in {"none", "Ok", "BadOrigin", "MessageAlreadyVerified",
                        "InvalidSignature", "Call", "BadProof"}

(* ------------- admission to the pool, dispatch from the pool ----------- *)
\* The transaction pool runs validate_unsigned on a submitted call, at any time
\* and in any order with other submissions, and keeps the call when it is valid.
Admit(call) ==
    /\ ncalls < 2 * MaxPool
    /\ Cardinality(pool) < MaxPool
    /\ Validate(call)
    /\ pool' = IF validate_unsigned(MessageState, call).validity = "Ok"
               THEN pool \cup {call}
               ELSE pool

\* Block execution dispatches the pooled calls one at a time, with the none
\* origin of an unsigned extrinsic.
Execute(call) ==
    /\ ncalls < 2 * MaxPool
    /\ call \in pool
    /\ Dispatch("None", call.account, call.message, call.signature)
    /\ pool' = pool \ {call}

AdmitStep == \E call \in Calls : Admit(call)

ExecuteStep == \E call \in pool : Execute(call)

NextPool == AdmitStep \/ ExecuteStep

SpecPool == InitStore /\ [][NextPool]_vars

(* ------------------ the pure functions, applied alone ------------------ *)
\* byte strings up to MaxPartLen bytes, and zero-filled ones as long as an
\* encoded AccountId (32) and a Message (256) are
ByteStrings ==
    UNION {[1..n -> {7, 200}] : n \in 0..MaxPartLen}
        \cup {[i \in 1..n |-> 0] : n \in {32, 256}}

\* addresses over bytes with equal and with different nibbles
Addresses == [1..AddressLen -> {0, 10, 171, 255}]

\* texts over "0", "x", "F" and "g", up to three characters longer than the
\* hex digits of an address
Texts == UNION {[1..n -> {48, 120, 70, 103}] : n \in 0..(2 * AddressLen + 3)}

\* the arguments one function is about to be applied to
Input(kind, arg, arg2) == [fn |-> kind, arg |-> arg, arg2 |-> arg2, out |-> <<>>]

InitPure ==
    /\ MessageState = [m \in Messages |-> None]
    /\ events = <<>>
    /\ last = NoCall
    /\ okCount = [m \in Messages |-> 0]
    /\ invalidSeen = {}
    /\ ncalls = 0
    /\ pool = {}
    /\ calc \in {Input("byte strings", what, extra) :
                     what \in ByteStrings, extra \in ByteStrings}
                \cup {Input("address", addr, <<>>) : addr \in Addresses}
                \cup {Input("text", text, <<>>) : text \in Texts}

Apply(fn, arg, arg2, out) ==
    /\ calc' = [fn |-> fn, arg |-> arg, arg2 |-> arg2, out |-> out]
    /\ UNCHANGED <<MessageState, events, last, okCount, invalidSeen, ncalls, pool>>

BuildPreimage ==
    /\ calc.fn = "byte strings"
    /\ Apply("ethereum_signable_message", calc.arg, calc.arg2,
             ethereum_signable_message(calc.arg, calc.arg2))

Serialize ==
    /\ calc.fn = "address"
    /\ Apply("serialize", calc.arg, <<>>, serialize(calc.arg))

Deserialize ==
    /\ calc.fn = "text"
    /\ Apply("deserialize", calc.arg, <<>>, deserialize(calc.arg))

\* the text just serialized is deserialized
RoundTrip ==
    /\ calc.fn = "serialize"
    /\ Apply("roundtrip", calc.arg, calc.out, deserialize(calc.out))

NextPure == BuildPreimage \/ Serialize \/ Deserialize \/ RoundTrip

SpecPure == InitPure /\ [][NextPure]_vars

(* ----------------------------- properties ------------------------------ *)
\* what recovery yields for the (account, message, signature) of the last call
LastRecovered ==
    eth_recover(last.call.signature, Encode(last.call.account),
                MessageBytes(last.call.message))

LastIsVerify == last.op = "verify_message"

LastIsValidate == last.op = "validate_unsigned"

C2_SuccessfulVerification ==
    (/\ LastIsVerify
     /\ last.origin = "None"
     /\ ~is_some(last.pre[last.call.message])
     /\ is_some(LastRecovered))
        => /\ last.result = "Ok"
           /\ MessageState[last.call.message] = Some(TRUE)
           /\ last.deposited =
                  <<MessageVerified(last.call.account, last.call.message, TRUE)>>
           /\ events = last.preEvents \o last.deposited

\* C3: an unsigned-origin verify_message call returns MessageAlreadyVerified
\* exactly when the storage map held the message when the call was made.
C3_AlreadyVerifiedIffPresent ==
    (LastIsVerify /\ last.origin = "None")
        => (last.result = "MessageAlreadyVerified"
                <=> is_some(last.pre[last.call.message]))

\* C4: a verify_message call that fails (BadOrigin, MessageAlreadyVerified or
\* InvalidSignature) leaves the storage map as it was and deposits no event.
C4_FailureLeavesNoTrace ==
    (LastIsVerify /\ last.result # "Ok")
        => /\ MessageState = last.pre
           /\ last.deposited = <<>>
           /\ events = last.preEvents

\* a verify_message call has failed with InvalidSignature after events were
\* already deposited
C4_Witness ==
    /\ LastIsVerify
    /\ last.result = "InvalidSignature"
    /\ Len(events) > 0

\* C5 (verified is terminal): every entry of the storage map is None or
\* Some(true), and no step removes or changes an entry that is present.
C5_VerifiedIsTerminal ==
    /\ [](\A m \in Messages : MessageState[m] \in {None, Some(TRUE)})
    /\ [][\A m \in Messages :
              is_some(MessageState[m]) => MessageState'[m] = MessageState[m]]_vars

\* verify_message has acted on a message the storage map holds, which is still
\* held as Some(true)
C5_Witness ==
    /\ LastIsVerify
    /\ last.origin = "None"
    /\ is_some(last.pre[last.call.message])
    /\ MessageState[last.call.message] = Some(TRUE)

\* C6: an unsigned-origin verify_message call on a message absent from the
\* storage map whose signature cannot be recovered returns InvalidSignature, and
\* InvalidSignature is returned only when recovery yields None.
C6_InvalidSignatureWhenUnrecoverable ==
    LastIsVerify
        => /\ (/\ last.origin = "None"
               /\ ~is_some(last.pre[last.call.message])
               /\ ~is_some(LastRecovered)) => last.result = "InvalidSignature"
           /\ last.result = "InvalidSignature" => ~is_some(LastRecovered)

\* C7: a verify_message call from a signed or root origin returns BadOrigin,
\* whatever the storage map, the message and the signature are, and changes
\* nothing.
C7_BadOriginFirst ==
    (LastIsVerify /\ last.origin # "None")
        => /\ last.result = "BadOrigin"
           /\ MessageState = last.pre
           /\ events = last.preEvents

\* a root-origin call with a malformed signature was refused with BadOrigin
C7_Witness ==
    /\ LastIsVerify
    /\ last.origin = "Root"
    /\ last.call.signature = MalformedSignature
    /\ last.result = "BadOrigin"

\* C8: validate_unsigned changes neither the storage map nor the event log,
\* whether it accepts or rejects, and a second run on the same call against the
\* same storage map returns the same validity.
C8_AdmissionIsPure ==
    LastIsValidate
        => /\ MessageState = last.pre
           /\ last.deposited = <<>>
           /\ events = last.preEvents
           /\ is_some(last.repeat)
                  => unwrap(last.repeat) = [result |-> last.result, ticket |-> last.ticket]

\* the same call was validated twice in a row and accepted
C8_Witness ==
    /\ LastIsValidate
    /\ is_some(last.repeat)
    /\ last.result = "Ok"

\* C9: validate_unsigned makes the checks of verify_message: it rejects a call
\* whose message the storage map already holds, and it accepts a call only if
\* verify_message on the same inputs and storage map would fail neither with
\* MessageAlreadyVerified nor with InvalidSignature.
C9_AdmissionMirrorsVerify ==
    (LastIsValidate /\ last.call.kind = "verify_message")
        => /\ is_some(last.pre[last.call.message]) => last.result # "Ok"
           /\ last.result = "Ok"
                  => verify_message(last.pre, "None", last.call.account,
                                    last.call.message, last.call.signature).result
                         \notin {"MessageAlreadyVerified", "InvalidSignature"}

\* C10: an accepted call gets a ticket with priority 100, no required tag,
\* exactly one provided tag, the encoding of ("claims", recovered signer),
\* the maximum longevity, and propagate = true.
C10_TicketShape ==
    (LastIsValidate /\ last.result = "Ok")
        => /\ is_some(last.ticket)
           /\ is_some(LastRecovered)
           /\ LET t == unwrap(last.ticket)
              IN  /\ t.priority = 100
                  /\ t.requires = <<>>
                  /\ t.provides = <<EncodeClaims(unwrap(LastRecovered))>>
                  /\ t.longevity = <<65535, 65535, 65535, 65535>>
                  /\ t.propagate = TRUE

\* a call whose signature was made for another account was accepted
C10_Witness ==
    /\ LastIsValidate
    /\ last.result = "Ok"
    /\ last.call.signature \in
           {Sign(k, a, last.call.message) : k \in Keys, a \in Accounts \ {last.call.account}}

RECURSIVE Decimal(_)
\* the decimal digits of n, most significant first, "0" for 0
Decimal(n) == IF n < 10 THEN <<48 + n>> ELSE Decimal(n \div 10) \o <<48 + (n % 10)>>

\* C11: ethereum_signable_message(what, extra) is the personal_sign prefix,
\* then the decimal digits of Len(what) + Len(extra) without leading zeros
\* ("0" for length 0), then what, then extra, for every pair of byte strings.
C11_PreimageExact ==
    calc.fn = "ethereum_signable_message"
        => calc.out = SignedMessagePrefix \o Decimal(Len(calc.arg) + Len(calc.arg2))
                          \o calc.arg \o calc.arg2

\* C12 (address round trip): deserializing the serialized text of an address,
\* which is "0x" and 2 * AddressLen lowercase hex digits, yields the address;
\* and deserialize fails on every text that has not exactly 2 * AddressLen
\* characters after an optional leading "0x".
C12_AddressRoundTrip ==
    /\ calc.fn = "roundtrip"
           => /\ calc.out = Ok(calc.arg)
              /\ Len(calc.arg2) = 2 + 2 * AddressLen
              /\ calc.arg2[1] = 48 /\ calc.arg2[2] = 120
              /\ \A i \in 3..Len(calc.arg2) :
                     calc.arg2[i] \in (48..57) \cup (97..102)
    /\ calc.fn = "deserialize"
           => LET rest == IF starts_with_0x(calc.arg) THEN Len(calc.arg) - 2
                          ELSE Len(calc.arg)
              IN  rest # 2 * AddressLen => ~calc.out.ok

\* an address with the bytes 0x0a and 0xab came back from its text
C12_Witness ==
    /\ calc.fn = "roundtrip"
    /\ calc.arg = <<10, 171>> \o [i \in 1..(AddressLen - 2) |-> 0]
    /\ calc.out.ok

\* the 32 zero bytes of an account and the 256 of a message were wrapped: the
\* length 288 has three digits
C11_Witness ==
    /\ calc.fn = "ethereum_signable_message"
    /\ Len(calc.arg) = 32
    /\ Len(calc.arg2) = 256
    /\ calc.out = SignedMessagePrefix \o <<50, 56, 56>> \o calc.arg \o calc.arg2

\* C11 without the empty pair: for every pair of byte strings that are not
\* both empty the value is the prefix, the decimal digits of the total length,
\* what and extra.
C11_PreimageExactNonEmpty ==
    (calc.fn = "ethereum_signable_message" /\ Len(calc.arg) + Len(calc.arg2) > 0)
        => calc.out = SignedMessagePrefix \o Decimal(Len(calc.arg) + Len(calc.arg2))
                          \o calc.arg \o calc.arg2

C17_SignerIndependence ==
    LastIsVerify =>
        \A s \in SignaturesFor(last.call.message) :
            LET signer == eth_recover(s, Encode(last.call.account),
                                      MessageBytes(last.call.message))
                r == verify_message(last.pre, last.origin, last.call.account,
                                    last.call.message, s)
            IN  is_some(signer) = is_some(LastRecovered)
                    => /\ r.result = last.result
                       /\ r.storage = MessageState

\* a call returns Ok, and another signature for it recovers to another address
C17_Witness ==
    /\ LastIsVerify
    /\ last.result = "Ok"
    /\ \E s \in SignaturesFor(last.call.message) :
          LET signer == eth_recover(s, Encode(last.call.account),
                                    MessageBytes(last.call.message))
          IN  is_some(signer) /\ signer # LastRecovered

\* C18 (provides tag): the provides tag of the ticket is a function of the
\* recovered signer alone. For the accepted call and any other call that
\* validate_unsigned accepts, whatever its account and message, the tags are
\* equal exactly when the recovered signers are equal.
C18_TagIsSigner ==
    (LastIsValidate /\ last.result = "Ok") =>
        \A call \in Calls :
            LET r == validate_unsigned(last.pre, call)
                signer == eth_recover(call.signature, Encode(call.account),
                                      MessageBytes(call.message))
            IN  r.validity = "Ok"
                    => ((signer = LastRecovered)
                          <=> (unwrap(r.ticket).provides
                                 = unwrap(last.ticket).provides))

\* validate_unsigned accepts a call, and a call with another account and
\* another message has the same recovered signer
C18_Witness ==
    /\ LastIsValidate
    /\ last.result = "Ok"
    /\ \E call \in Calls :
          /\ call.kind = "verify_message"
          /\ call.account # last.call.account
          /\ call.message # last.call.message
          /\ eth_recover(call.signature, Encode(call.account),
                         MessageBytes(call.message)) = LastRecovered

\* C19 (rejections of validate_unsigned): a verify_message call whose signature
\* recovers to no address is rejected with InvalidTransaction::BadProof, any
\* other call is rejected with InvalidTransaction::Call, and neither gets a
\* ticket.
C19_Rejections ==
    LastIsValidate =>
        /\ (last.call.kind = "verify_message" /\ ~is_some(LastRecovered))
               => (last.result = "BadProof" /\ last.ticket = None)
        /\ last.call.kind # "verify_message"
               => (last.result = "Call" /\ last.ticket = None)

\* validate_unsigned has rejected a verify_message call with a malformed signature
C19_Witness ==
    /\ LastIsValidate
    /\ last.call.kind = "verify_message"
    /\ ~is_some(LastRecovered)
    /\ last.result = "BadProof"

=============================================================================
